---- MODULE Spec2Model ----
(***************************************************************************)
(* Leveler administration commands (leveler/commands/lvladmin/users.py):   *)
(* xpban, resetranks and setlevel acting on the users collection of the    *)
(* document store.  Every command invocation is a coroutine; it is split   *)
(* into steps at the awaits on the store, so that invocations interleave.  *)
(* The pagination view of leveler/menus/base.py is modelled beside it, in   *)
(* the variable view, with a specification of its own (MenuSpec), and the  *)
(* unit settings of weather/weather.py in the variable config              *)
(* (WeatherSpec).                                                          *)
(***************************************************************************)
EXTENDS Integers, Sequences, FiniteSets, TLC

(* ---------------------------- bounds ----------------------------------- *)
NumMembers == 3
NumGuilds == 2
MaxLevel == 2

(* ------------------------ program constants ---------------------------- *)
ProgressEvery == 100

(* ------------------------------ universe ------------------------------- *)
UserIds == 1..NumMembers
Guilds == 1..NumGuilds
\* two administrators' invocations may be in flight at once
Procs == {1, 2}
\* member.bot / user.bot of the host framework: the second member is a bot
IsBot(u) == u = 2
\* level argument of setlevel (an int; may be negative)
LevelArgs == (-1)..MaxLevel
\* current_exp values of the records the store starts with
CurExps == {30}
\* bantime.total_seconds() and time.time() values of xpban
BanTimes == {60}
Times == {1000}

(* --------------------------- documents --------------------------------- *)
\* Python None / an absent document
None == [none |-> TRUE]
EmptyDict == [k \in {} |-> 0]
\* str(id)
Str(n) == ToString(n)
\* dict.get(key, default)
DictGet(d, k, default) == IF k \in DOMAIN d THEN d[k] ELSE default
DictPut(d, k, v) == [x \in (DOMAIN d) \cup {k} |-> IF x = k THEN v ELSE d[x]]

\* one "$set" of a dotted path: intermediate documents are created
RECURSIVE SetPath(_, _, _)
SetPath(d, path, v) ==
  IF Len(path) = 1
    THEN DictPut(d, path[1], v)
    ELSE DictPut(d, path[1],
                 SetPath(DictGet(d, path[1], EmptyDict), Tail(path), v))

\* {"$set": {...}} applied to one document, field by field
RECURSIVE ApplySet(_, _)
ApplySet(d, fields) ==
  IF fields = <<>> THEN d
  ELSE ApplySet(SetPath(d, Head(fields)[1], Head(fields)[2]), Tail(fields))

\* db.users.find_one({"user_id": str(id)})
find_one(db, u) == db[u]

\* db.users.update_one({"user_id": str(id)}, {"$set": fields}): no upsert,
\* a filter that matches no document changes nothing
update_one(db, u, fields) ==
  IF db[u] = None THEN db
  ELSE [db EXCEPT ![u] = ApplySet(db[u], fields)]

(* ----------------------- experience curve ------------------------------ *)
\* experience needed to advance from level to level + 1
_required_exp(level) ==
  IF level = 0 THEN 100 ELSE IF level = 1 THEN 150 ELSE 150 + 10 * level

\* cumulative experience needed to reach level from zero
RECURSIVE _level_exp(_)
_level_exp(level) ==
  IF level <= 0 THEN 0 ELSE _level_exp(level - 1) + _required_exp(level - 1)

\* ensure the user has a record with an entry for this guild
_create_user(db, u, g) ==
  IF db[u] = None
    THEN [db EXCEPT ![u] =
            [user_id |-> Str(u), total_exp |-> 0,
             servers |-> DictPut(EmptyDict, Str(g),
                                 [level |-> 0, current_exp |-> 0])]]
  ELSE IF Str(g) \notin DOMAIN db[u].servers
    THEN update_one(db, u, << <<(<<"servers", Str(g), "level">>), 0>>,
                              <<(<<"servers", Str(g), "current_exp">>), 0>> >>)
  ELSE db

(* ------------------------- setlevel, pure part ------------------------- *)
\* variant: the loop runs over range(level + 1)
RECURSIVE OldServerExp_Inclusive(_)
OldServerExp_Inclusive(level) ==
  IF level < 0 THEN 0
  ELSE OldServerExp_Inclusive(level - 1) + _required_exp(level)

\* lines 106-108: for i in range(level): old_server_exp += _required_exp(i)
RECURSIVE OldServerExp(_)
OldServerExp(level) ==
  IF level <= 0 THEN 0 ELSE OldServerExp(level - 1) + _required_exp(level - 1)

\* variant: line 110 missing, the old current_exp stays in total_exp
SetLevelCompute_KeepCurrent(userinfo, g, level) ==
  LET old == userinfo.servers[Str(g)]
      t1 == userinfo.total_exp - OldServerExp(old.level)
      total_exp == _level_exp(level)
  IN [userinfo EXCEPT
        !.servers = DictPut(userinfo.servers, Str(g),
                            [level |-> level, current_exp |-> 0]),
        !.total_exp = t1 + total_exp]

\* lines 105-116: the in-memory userinfo after the recomputation
SetLevelCompute(userinfo, g, level) ==
  LET old == userinfo.servers[Str(g)]
      t1 == userinfo.total_exp - OldServerExp(old.level)
      t2 == t1 - old.current_exp
      total_exp == _level_exp(level)
  IN [userinfo EXCEPT
        !.servers = DictPut(userinfo.servers, Str(g),
                            [level |-> level, current_exp |-> 0]),
        !.total_exp = t2 + total_exp]

\* variant: line 123 missing, current_exp is not written
SetLevelFields_KeepExp(userinfo, g, level) ==
  << <<(<<"servers", Str(g), "level">>), level>>,
     <<(<<"total_exp">>), userinfo.total_exp>> >>

\* variant: the whole in-memory servers mapping is written back
SetLevelFields_WholeServers(userinfo, g, level) ==
  << <<(<<"servers">>), userinfo.servers>>,
     <<(<<"total_exp">>), userinfo.total_exp>> >>

\* lines 120-126: the "$set" document of setlevel
SetLevelFields(userinfo, g, level) ==
  << <<(<<"servers", Str(g), "level">>), level>>,
     <<(<<"servers", Str(g), "current_exp">>), 0>>,
     <<(<<"total_exp">>), userinfo.total_exp>> >>

(* ------------------------ resetranks, pure part ------------------------ *)
\* lines 65-67: userinfo["total_exp"] - userinfo.get(str(guild.id), {}).get("current_exp", 0)
ResetTotalExp(userinfo, g) ==
  userinfo.total_exp
    - DictGet(DictGet(userinfo, Str(g), EmptyDict), "current_exp", 0)

\* variant: the reset clears total_exp as well
ResetFields_ZeroTotal(g, total_exp) ==
  << <<(<<"servers", Str(g), "level">>), 0>>,
     <<(<<"servers", Str(g), "current_exp">>), 0>>,
     <<(<<"total_exp">>), 0>> >>

\* lines 70-76: the "$set" document of resetranks
ResetFields(g, total_exp) ==
  << <<(<<"servers", Str(g), "level">>), 0>>,
     <<(<<"servers", Str(g), "current_exp">>), 0>>,
     <<(<<"total_exp">>), total_exp>> >>

(* ---------------------------- xpban, pure part ------------------------- *)
\* variant: the duration is not added, the block ends at once
ChatBlock_NowOnly(now, bantime) == now

\* line 35: chat_block = time.time() + bantime.total_seconds()
ChatBlock(now, bantime) == now + bantime

\* line 38: the "$set" document of xpban
XpbanFields(chat_block) == << <<(<<"chat_block">>), chat_block>> >>

(* ------------------------------- state --------------------------------- *)
VARIABLES
  users,    \* the users collection: user id -> document or None
  st,       \* per invocation slot: position and local variables
  ver,      \* history: number of changes made to each user's document
  lastSet,  \* history: the last completed write on each user, if a setlevel
  view,     \* the pagination view on display, None when no menu is open
  config    \* the weather cog's settings and last reply, None when not loaded

vars == <<users, st, ver, lastSet, view, config>>

\* ctx.guild.members, in the host framework's enumeration order: the ids
\* the store is keyed by
Members(g) == [i \in DOMAIN users |-> i]

\* an invocation slot with no command running
Idle ==
  [pc |-> "idle", cmd |-> "none", user |-> 0, guild |-> 0, level |-> 0,
   asInt |-> FALSE, bantime |-> 0, now |-> 0, chat_block |-> 0,
   read |-> None, userinfo |-> None, total_exp |-> 0,
   idx |-> 0, current |-> 0, visited |-> <<>>, notices |-> <<>>,
   result |-> "", writes |-> 0, acked |-> FALSE, reported |-> FALSE,
   levelups |-> 0, handled |-> None, created |-> FALSE, wrote |-> FALSE,
   applied |-> FALSE, again |-> FALSE, fresh |-> FALSE, seenVer |-> 0,
   verAt |-> 0]

\* sum over the guild entries of a document of level_exp(level) + current_exp
RECURSIVE GuildExpSum(_, _)
GuildExpSum(servers, keys) ==
  IF keys = {} THEN 0
  ELSE LET k == CHOOSE x \in keys : TRUE
       IN _level_exp(servers[k].level) + servers[k].current_exp
            + GuildExpSum(servers, keys \ {k})

Consistent(doc) == doc.total_exp = GuildExpSum(doc.servers, DOMAIN doc.servers)

Standings == [level : 0..MaxLevel, current_exp : CurExps]
OtherStanding == [level |-> 1, current_exp |-> 30]
\* experience in guild 2, and in guild 1 any standing or none
ServerMaps ==
  LET other == DictPut(EmptyDict, Str(2), OtherStanding)
  IN {other} \cup {DictPut(other, Str(1), s) : s \in Standings}
MakeDoc(u, servers) ==
  [user_id |-> Str(u), total_exp |-> GuildExpSum(servers, DOMAIN servers),
   servers |-> servers]

\* the documents the store may start with, written by earlier activity
InitDocs(u) ==
  IF u = 1 THEN {None} \cup {MakeDoc(u, s) : s \in ServerMaps}
  ELSE {MakeDoc(u, DictPut(EmptyDict, Str(1), OtherStanding))}

Init ==
  /\ users \in {f \in [UserIds -> UNION {InitDocs(u) : u \in UserIds}] :
                  \A u \in UserIds : f[u] \in InitDocs(u)}
  /\ st = [p \in Procs |-> Idle]
  /\ ver = [u \in UserIds |-> 0]
  /\ lastSet = [u \in UserIds |-> [valid |-> FALSE, guild |-> 0, level |-> 0]]
  /\ view = None
  /\ config = None

(* --------------------------- history variables ------------------------- *)
NoSet == [valid |-> FALSE, guild |-> 0, level |-> 0]

\* ver counts the changes of each document; lastSet[u] names the setlevel
\* whose write is the last thing that happened to u's document
NewVer(db) ==
  [u \in DOMAIN users |-> IF db[u] # users[u] THEN ver[u] + 1 ELSE ver[u]]

Track(db, setUser, g, level) ==
  /\ ver' = NewVer(db)
  /\ lastSet' = [u \in DOMAIN users |->
                   IF u = setUser THEN [valid |-> TRUE, guild |-> g, level |-> level]
                   ELSE IF db[u] # users[u] THEN NoSet
                   ELSE lastSet[u]]
  /\ UNCHANGED <<view, config>>

\* the dispatcher starts a command in the first free invocation slot
\* the frame of a coroutine that has returned is discarded
Returned == [Idle EXCEPT !.pc = "returned"]

\* the slots after the dispatcher has put a new frame into slot p
Dispatch(p, frame) ==
  [q \in Procs |-> IF q = p THEN frame
                   ELSE IF st[q].pc \in {"done", "raised"} THEN Returned
                   ELSE st[q]]

CanBegin(p) ==
  /\ st[p].pc = "idle"
  /\ \A q \in Procs : q < p => st[q].pc # "idle"

(* ------------------------------ setlevel ------------------------------- *)
\* lines 93-98: bot check, then _create_user
SetLevelBegin(p, u, g, level) ==
  /\ CanBegin(p)
  /\ LET frame == [Idle EXCEPT !.cmd = "setlevel", !.user = u, !.guild = g,
                               !.level = level]
     IN IF IsBot(u)
          THEN /\ users' = users
               /\ st' = Dispatch(p, [frame EXCEPT !.pc = "done",
                                                  !.result = "bot",
                                                  !.reported = TRUE])
               /\ Track(users, 0, 0, 0)
          ELSE LET db == _create_user(users, u, g)
               IN /\ users' = db
                  /\ st' = Dispatch(p, [frame EXCEPT !.pc = "sl_find",
                                                     !.created = (db # users)])
                  /\ Track(db, 0, 0, 0)

\* lines 99-116: find_one, level check, recomputation in memory
SetLevelFind(p) ==
  /\ st[p].pc = "sl_find"
  /\ LET s == st[p]
         userinfo == find_one(users, s.user)
     IN IF s.level < 0
          THEN st' = [st EXCEPT ![p] = [s EXCEPT !.pc = "done",
                                                 !.read = userinfo,
                                                 !.result = "invalid_level",
                                                 !.reported = TRUE]]
          ELSE st' = [st EXCEPT ![p] =
                 [s EXCEPT !.pc = "sl_update",
                           !.read = userinfo,
                           !.userinfo = SetLevelCompute(userinfo, s.guild, s.level),
                           !.seenVer = ver[s.user],
                           !.again = /\ lastSet[s.user].valid
                                     /\ lastSet[s.user].guild = s.guild
                                     /\ lastSet[s.user].level = s.level]]
  /\ UNCHANGED <<users, ver, lastSet, view, config>>

\* variant: the update is issued as two update_one calls, guild fields first
SetLevelUpdate_Split(p) ==
  /\ st[p].pc = "sl_update"
  /\ LET s == st[p]
         guildFields == << <<(<<"servers", Str(s.guild), "level">>), s.level>>,
                           <<(<<"servers", Str(s.guild), "current_exp">>), 0>> >>
         totalField == << <<(<<"total_exp">>), s.userinfo.total_exp>> >>
         db == update_one(users, s.user,
                          IF s.writes = 0 THEN guildFields ELSE totalField)
     IN /\ users' = db
        /\ st' = [st EXCEPT ![p] =
                    [s EXCEPT !.pc = IF s.writes = 0 THEN "sl_update" ELSE "sl_send",
                              !.writes = s.writes + 1,
                              !.applied = (s.writes = 1),
                              !.fresh = (s.seenVer = ver[s.user]),
                                          !.verAt = NewVer(db)[s.user],
                              !.wrote = (s.wrote \/ db # users)]]
        /\ Track(db, s.user, s.guild, s.level)

\* variant: an exception of update_one is swallowed and the command goes on
SetLevelUpdate_Swallow(p) ==
  /\ st[p].pc = "sl_update"
  /\ LET s == st[p]
     IN \E ok \in BOOLEAN :
          LET db == IF ok
                      THEN update_one(users, s.user,
                                      SetLevelFields(s.userinfo, s.guild, s.level))
                      ELSE users
          IN /\ users' = db
             /\ st' = [st EXCEPT ![p] =
                         [s EXCEPT !.pc = "sl_send",
                                   !.writes = s.writes + 1,
                                   !.applied = ok,
                                   !.result = IF ok THEN s.result ELSE "write_failed",
                                   !.fresh = (s.seenVer = ver[s.user]),
                                          !.verAt = NewVer(db)[s.user],
                                   !.wrote = (s.wrote \/ db # users)]]
             /\ Track(db, IF ok THEN s.user ELSE 0, s.guild, s.level)

\* variant: the update is conditional on the record being as it was read
SetLevelUpdate_IfUnchanged(p) ==
  /\ st[p].pc = "sl_update"
  /\ LET s == st[p]
         db == IF s.seenVer = ver[s.user]
                 THEN update_one(users, s.user,
                                 SetLevelFields(s.userinfo, s.guild, s.level))
                 ELSE users
     IN /\ users' = db
        /\ st' = [st EXCEPT ![p] =
                    [s EXCEPT !.pc = "sl_send",
                              !.writes = s.writes + 1,
                              !.applied = TRUE,
                              !.fresh = (s.seenVer = ver[s.user]),
                              !.verAt = NewVer(db)[s.user],
                              !.wrote = (s.wrote \/ db # users)]]
        /\ Track(db, s.user, s.guild, s.level)

\* lines 118-127: the single update_one; an exception leaves the command
SetLevelUpdate(p) ==
  /\ st[p].pc = "sl_update"
  /\ LET s == st[p]
     IN \E ok \in BOOLEAN :
          IF ok
            THEN LET db == update_one(users, s.user,
                                      SetLevelFields(s.userinfo, s.guild, s.level))
                 IN /\ users' = db
                    /\ st' = [st EXCEPT ![p] =
                                [s EXCEPT !.pc = "sl_send",
                                          !.writes = s.writes + 1,
                                          !.applied = TRUE,
                                          !.fresh = (s.seenVer = ver[s.user]),
                                          !.verAt = NewVer(db)[s.user],
                                          !.wrote = (s.wrote \/ db # users)]]
                    /\ Track(db, s.user, s.guild, s.level)
            ELSE /\ users' = users
                 /\ st' = [st EXCEPT ![p] =
                             [s EXCEPT !.pc = "raised",
                                       !.writes = s.writes + 1,
                                       !.result = "write_failed"]]
                 /\ Track(users, 0, 0, 0)

\* lines 128-132: the acknowledgement, then
\* _handle_levelup(user, userinfo, server, channel)
SetLevelNotify(p) ==
  /\ st[p].pc = "sl_send"
  /\ st' = [st EXCEPT ![p].pc = "done", ![p].result = "ok",
                      ![p].acked = TRUE,
                      ![p].levelups = st[p].levelups + 1,
                      ![p].handled = st[p].userinfo]
  /\ UNCHANGED <<users, ver, lastSet, view, config>>

(* -------------------------------- xpban -------------------------------- *)
\* lines 29-35: lookup of a raw id, then the expiry time
XpbanBegin(p, u, asInt, bantime, now) ==
  /\ CanBegin(p)
  /\ LET frame == [Idle EXCEPT !.cmd = "xpban", !.user = u, !.asInt = asInt,
                               !.bantime = bantime, !.now = now]
     IN IF asInt /\ find_one(users, u) = None
          THEN st' = Dispatch(p, [frame EXCEPT !.pc = "done",
                                               !.result = "not_found",
                                               !.reported = TRUE])
          ELSE st' = Dispatch(p, [frame EXCEPT !.pc = "xb_update",
                                               !.chat_block = ChatBlock(now, bantime)])
  /\ UNCHANGED <<users, ver, lastSet, view, config>>

\* variant: ctx.tick() runs after the try statement, also after a failure
XpbanUpdate_TickAlways(p) ==
  /\ st[p].pc = "xb_update"
  /\ LET s == st[p]
     IN \E ok \in BOOLEAN :
          LET db == IF ok THEN update_one(users, s.user, XpbanFields(s.chat_block))
                    ELSE users
          IN /\ users' = db
             /\ st' = [st EXCEPT ![p] =
                         [s EXCEPT !.pc = "done",
                                   !.result = IF ok THEN "ok" ELSE "write_failed",
                                   !.writes = s.writes + 1,
                                   !.acked = TRUE,
                                   !.reported = ~ok,
                                   !.applied = ok,
                                   !.fresh = (s.seenVer = ver[s.user]),
                                          !.verAt = NewVer(db)[s.user],
                                   !.wrote = (s.wrote \/ db # users)]]
             /\ Track(db, 0, 0, 0)

\* lines 36-43: update_one inside try/except/else
XpbanUpdate(p) ==
  /\ st[p].pc = "xb_update"
  /\ LET s == st[p]
     IN \E ok \in BOOLEAN :
          IF ok
            THEN LET db == update_one(users, s.user, XpbanFields(s.chat_block))
                 IN /\ users' = db
                    /\ st' = [st EXCEPT ![p] =
                                [s EXCEPT !.pc = "done", !.result = "ok",
                                          !.writes = s.writes + 1,
                                          !.applied = TRUE,
                                          !.fresh = (s.seenVer = ver[s.user]),
                                          !.verAt = NewVer(db)[s.user],
                                          !.acked = TRUE,
                                          !.wrote = (s.wrote \/ db # users)]]
                    /\ Track(db, 0, 0, 0)
            ELSE /\ users' = users
                 /\ st' = [st EXCEPT ![p] =
                             [s EXCEPT !.pc = "done", !.result = "write_failed",
                                       !.writes = s.writes + 1,
                                       !.reported = TRUE]]
                 /\ Track(users, 0, 0, 0)

(* ------------------------------ resetranks ----------------------------- *)
\* lines 54-57: the first progress message, current = 0
ResetBegin(p, g) ==
  /\ CanBegin(p)
  /\ st' = Dispatch(p, [Idle EXCEPT !.cmd = "resetranks", !.guild = g,
                                    !.pc = "rr_next", !.idx = 1])
  /\ UNCHANGED <<users, ver, lastSet, view, config>>

\* variant: line 59-60 missing, bot members are not skipped
ResetVisit_NoBotSkip(p) ==
  /\ st[p].pc = "rr_next"
  /\ st[p].idx <= Len(Members(st[p].guild))
  /\ LET s == st[p]
         member == Members(s.guild)[s.idx]
         seen == [s EXCEPT !.visited = Append(s.visited, member)]
         userinfo == find_one(users, member)
     IN IF userinfo = None
          THEN st' = [st EXCEPT ![p] = [seen EXCEPT !.idx = s.idx + 1]]
          ELSE st' = [st EXCEPT ![p] =
                       [seen EXCEPT !.pc = "rr_update", !.user = member,
                                    !.read = userinfo,
                                    !.seenVer = ver[member],
                                    !.total_exp = ResetTotalExp(userinfo, s.guild)]]
  /\ UNCHANGED <<users, ver, lastSet, view, config>>

\* variant: a skipped member is not left behind, the loop stays on it
ResetVisit_StuckOnSkip(p) ==
  /\ st[p].pc = "rr_next"
  /\ st[p].idx <= Len(Members(st[p].guild))
  /\ LET s == st[p]
         member == Members(s.guild)[s.idx]
         seen == [s EXCEPT !.visited = Append(s.visited, member)]
         userinfo == find_one(users, member)
     IN IF IsBot(member) \/ userinfo = None
          THEN st' = st
          ELSE st' = [st EXCEPT ![p] =
                       [seen EXCEPT !.pc = "rr_update", !.user = member,
                                    !.read = userinfo,
                                    !.seenVer = ver[member],
                                    !.total_exp = ResetTotalExp(userinfo, s.guild)]]
  /\ UNCHANGED <<users, ver, lastSet, view, config>>

\* lines 58-67: the next member: skip bots and members without a record
ResetVisit(p) ==
  /\ st[p].pc = "rr_next"
  /\ st[p].idx <= Len(Members(st[p].guild))
  /\ LET s == st[p]
         member == Members(s.guild)[s.idx]
         seen == [s EXCEPT !.visited = Append(s.visited, member)]
         userinfo == find_one(users, member)
     IN IF IsBot(member) \/ userinfo = None
          THEN st' = [st EXCEPT ![p] = [seen EXCEPT !.idx = s.idx + 1]]
          ELSE st' = [st EXCEPT ![p] =
                       [seen EXCEPT !.pc = "rr_update", !.user = member,
                                    !.read = userinfo,
                                    !.seenVer = ver[member],
                                    !.total_exp = ResetTotalExp(userinfo, s.guild)]]
  /\ UNCHANGED <<users, ver, lastSet, view, config>>

\* lines 68-83: update_one, the counter and the progress notice
ResetUpdate(p) ==
  /\ st[p].pc = "rr_update"
  /\ LET s == st[p]
     IN \E ok \in BOOLEAN :
          IF ok
            THEN LET db == update_one(users, s.user,
                                      ResetFields(s.guild, s.total_exp))
                     current == s.current + 1
                 IN /\ users' = db
                    /\ st' = [st EXCEPT ![p] =
                         [s EXCEPT !.pc = "rr_next", !.idx = s.idx + 1,
                                   !.current = current,
                                   !.writes = s.writes + 1,
                                   !.applied = TRUE,
                                   !.fresh = (s.seenVer = ver[s.user]),
                                          !.verAt = NewVer(db)[s.user],
                                   !.wrote = (s.wrote \/ db # users),
                                   !.notices =
                                      IF current % ProgressEvery = 0
                                        THEN Append(s.notices, 0)
                                        ELSE s.notices]]
                    /\ Track(db, 0, 0, 0)
            ELSE /\ users' = users
                 /\ st' = [st EXCEPT ![p] =
                             [s EXCEPT !.pc = "raised",
                                       !.writes = s.writes + 1,
                                       !.result = "write_failed"]]
                 /\ Track(users, 0, 0, 0)

\* lines 84-86: the closing message
ResetFinish(p) ==
  /\ st[p].pc = "rr_next"
  /\ st[p].idx > Len(Members(st[p].guild))
  /\ st' = [st EXCEPT ![p].pc = "done", ![p].result = "ok", ![p].acked = TRUE]
  /\ UNCHANGED <<users, ver, lastSet, view, config>>

Next ==
  \/ \E p \in Procs, u \in UserIds, g \in Guilds, level \in LevelArgs :
        SetLevelBegin(p, u, g, level)
  \/ \E p \in Procs : SetLevelFind(p)
  \/ \E p \in Procs : SetLevelUpdate(p)
  \/ \E p \in Procs : SetLevelNotify(p)
  \/ \E p \in Procs, u \in UserIds, asInt \in BOOLEAN,
         bantime \in BanTimes, now \in Times :
        XpbanBegin(p, u, asInt, bantime, now)
  \/ \E p \in Procs : XpbanUpdate(p)
  \/ \E p \in Procs, g \in Guilds : ResetBegin(p, g)
  \/ \E p \in Procs : ResetVisit(p)
  \/ \E p \in Procs : ResetUpdate(p)
  \/ \E p \in Procs : ResetFinish(p)

Spec == Init /\ [][Next]_vars

\* the event loop resumes a resetranks coroutine whenever its await is over
FairSpec ==
  /\ Spec
  /\ \A p \in Procs :
       WF_vars(ResetVisit(p)) /\ WF_vars(ResetUpdate(p)) /\ WF_vars(ResetFinish(p))

(* ------------- a run of setlevel and resetranks on one user ------------ *)
\* the number of changes of the user's record after which no further
\* command is started
MaxChanges == 3
\* the user the administrators keep working on
RaceUser == 1
\* the levels they set: the lowest and the highest
RaceLevels == {0, MaxLevel}

\* the coroutine of slot p has returned; the slot takes the next command
Return(p) ==
  /\ st[p].pc \in {"done", "raised", "returned"}
  /\ st' = [st EXCEPT ![p] = Idle]
  /\ UNCHANGED <<users, ver, lastSet, view, config>>

RaceNext ==
  \/ \E p \in Procs, g \in Guilds, level \in RaceLevels :
        ver[RaceUser] < MaxChanges /\ SetLevelBegin(p, RaceUser, g, level)
  \/ \E p \in Procs : SetLevelFind(p)
  \/ \E p \in Procs : SetLevelUpdate(p)
  \/ \E p \in Procs : SetLevelNotify(p)
  \/ \E p \in Procs, g \in Guilds :
        ver[RaceUser] < MaxChanges /\ ResetBegin(p, g)
  \/ \E p \in Procs : ResetVisit(p)
  \/ \E p \in Procs : ResetUpdate(p)
  \/ \E p \in Procs : ResetFinish(p)
  \/ \E p \in Procs : Return(p)

\* a store that holds the one record, consistent as earlier activity left it
RaceInit ==
  /\ users \in [{RaceUser} -> InitDocs(RaceUser) \ {None}]
  /\ st = [p \in Procs |-> Idle]
  /\ ver = [u \in {RaceUser} |-> 0]
  /\ lastSet = [u \in {RaceUser} |-> NoSet]
  /\ view = None
  /\ config = None

RaceSpec == RaceInit /\ [][RaceNext]_vars

(* ----------------- one resetranks over a large guild ------------------- *)
\* members of the large guild: enough records for one progress notice, a
\* bot and a member without a record
WalkMembers == ProgressEvery + 2

WalkInit ==
  /\ users = [u \in 1..WalkMembers |->
                IF u = 1 THEN None
                ELSE MakeDoc(u, DictPut(EmptyDict, Str(1), OtherStanding))]
  /\ st = [p \in Procs |-> Idle]
  /\ ver = [u \in 1..WalkMembers |-> 0]
  /\ lastSet = [u \in 1..WalkMembers |-> NoSet]
  /\ view = None
  /\ config = None

WalkNext ==
  \/ \E g \in Guilds : ResetBegin(1, g)
  \/ \E p \in Procs : ResetVisit(p)
  \/ \E p \in Procs : ResetUpdate(p)
  \/ \E p \in Procs : ResetFinish(p)

WalkSpec == WalkInit /\ [][WalkNext]_vars

(* ------------------- pagination view (menus/base.py) ------------------- *)
\* the largest page count of a source
MaxPages == 40
\* the most options a select menu takes, and the options kept before and
\* after the current page
SelectLimit == 25
SelectBefore == 12
SelectAfter == 13

\* who may press: the author of the command, a bot owner, anybody else
MenuUsers == {"author", "owner", "other"}
owner_ids == {"owner"}

\* source.select_options: one option per page, its value the page index
select_options(max_pages) == [i \in 1..max_pages |-> i - 1]

\* seq[lo:hi] of Python for 0 <= lo; an absent bound is given as 0 or Len
PySlice(seq, lo, hi) ==
  SubSeq(seq, lo + 1, IF hi < Len(seq) THEN hi ELSE Len(seq))

\* source.is_paginating() of the host library's list sources
is_paginating(max_pages) == max_pages > 1

\* lines 148-165: the options of the select menu for the page in current_page
_get_select_menu(current_page, max_pages) ==
  LET options == select_options(max_pages)
      n == Len(options)
  IN IF n > SelectLimit
       THEN IF SelectBefore < current_page /\ current_page < n - SelectLimit
              THEN PySlice(options, current_page - SelectBefore,
                           current_page + SelectAfter)
            ELSE IF current_page >= n - SelectLimit
              THEN PySlice(options, n - SelectLimit, n)
            ELSE PySlice(options, 0, SelectLimit)
       ELSE PySlice(options, 0, SelectLimit)

\* lines 211-223: the select menu is rebuilt, then the page is fetched and
\* current_page is set
show_page(v, page_number) ==
  [v EXCEPT
     !.disabled = ~is_paginating(v.max_pages),
     !.select_menu =
        IF Len(select_options(v.max_pages)) > SelectLimit
             /\ is_paginating(v.max_pages)
          THEN _get_select_menu(v.current_page, v.max_pages)
          ELSE v.select_menu,
     !.current_page = page_number,
     !.shown = page_number]

\* variant: the page number is shown without the check against max_pages
show_checked_page_Unchecked(v, page_number) == show_page(v, page_number)

\* lines 225-239: wrap around at both ends
show_checked_page(v, page_number) ==
  IF page_number >= v.max_pages THEN show_page(v, 0)
  ELSE IF page_number < 0 THEN show_page(v, v.max_pages - 1)
  ELSE show_page(v, page_number)

\* variant: the check lets everybody through
interaction_check_Anyone(user) == TRUE

\* lines 241-248: only bot owners and the author of the command may press
interaction_check(user) == user \in owner_ids \cup {"author"}

\* the host library runs interaction_check, then the callback of the item
Interact(user, item, after) ==
  /\ view # None
  /\ view' = IF interaction_check(user)
               THEN [after EXCEPT !.pressed = item, !.by = user,
                                  !.refused = FALSE]
               ELSE [view EXCEPT !.pressed = item, !.by = user,
                                 !.refused = TRUE]
  /\ UNCHANGED <<users, st, ver, lastSet, config>>

\* lines 36-37
ForwardButton(user) ==
  /\ view # None /\ ~view.disabled
  /\ Interact(user, "forward", show_checked_page(view, view.current_page + 1))

\* lines 50-51
BackButton(user) ==
  /\ view # None /\ ~view.disabled
  /\ Interact(user, "back", show_checked_page(view, view.current_page - 1))

\* lines 66-67
LastItemButton(user) ==
  /\ view # None /\ ~view.disabled
  /\ Interact(user, "last", show_page(view, view.max_pages - 1))

\* lines 82-83
FirstItemButton(user) ==
  /\ view # None /\ ~view.disabled
  /\ Interact(user, "first", show_page(view, 0))

\* lines 90-92: one of the options on offer is chosen
_SelectMenu(user, i) ==
  /\ view # None /\ i \in 1..Len(view.select_menu)
  /\ Interact(user, "select", show_page(view, view.select_menu[i]))

\* lines 96-125 and 179-191: the view as constructed and sent
MenuInit ==
  /\ \E max_pages \in 1..MaxPages, page_start \in 0..(MaxPages - 1) :
       /\ page_start < max_pages
       /\ view = [max_pages |-> max_pages,
                  current_page |-> page_start,
                  shown |-> page_start,
                  select_menu |-> _get_select_menu(page_start, max_pages),
                  disabled |-> ~is_paginating(max_pages),
                  pressed |-> "none",
                  by |-> "none",
                  refused |-> FALSE]
  /\ users = [u \in UserIds |-> None]
  /\ st = [p \in Procs |-> Idle]
  /\ ver = [u \in UserIds |-> 0]
  /\ lastSet = [u \in UserIds |-> NoSet]
  /\ config = None

MenuNext ==
  \/ \E user \in MenuUsers : ForwardButton(user)
  \/ \E user \in MenuUsers : BackButton(user)
  \/ \E user \in MenuUsers : LastItemButton(user)
  \/ \E user \in MenuUsers : FirstItemButton(user)
  \/ \E user \in MenuUsers, i \in 1..SelectLimit : _SelectMenu(user, i)

MenuSpec == MenuInit /\ [][MenuNext]_vars

(* ------------------ unit settings (weather/weather.py) ----------------- *)
\* lines 90-123: the labels of every unit system
UNITS ==
  [si |-> [distance |-> "km", intensity |-> "mm/h", accumulation |-> "cm",
           temp |-> "C", speed |-> "m/s", pressure |-> "hPa"],
   ca |-> [distance |-> "km", intensity |-> "mm/h", accumulation |-> "cm",
           temp |-> "C", speed |-> "km/h", pressure |-> "hPa"],
   uk2 |-> [distance |-> "mi", intensity |-> "mm/h", accumulation |-> "cm",
            temp |-> "C", speed |-> "mph", pressure |-> "hPa"],
   us |-> [distance |-> "mi", intensity |-> "in", accumulation |-> "in",
           temp |-> "F", speed |-> "mph", pressure |-> "mbar"]]

\* a setting that holds no value, and a command argument left out
NoUnits == ""
\* the units argument of forecastunits and forecastunits guild
UnitArgs == {NoUnits, "si", "ca", "uk2", "us", "US", "reset", "xx"}
\* str.casefold() on these arguments
casefold(units) == IF units = "US" THEN "us" ELSE units
\* a or b of Python
PyOr(a, b) == IF a = NoUnits THEN b ELSE a

\* the labels the weather command and the forecast command ask for
WeatherTypes == {"temp", "pressure", "distance", "speed", "intensity"}
ForecastTypes == WeatherTypes \cup {"accumulation"}

\* lines 479-482
get_units(cfg, guild) ==
  IF guild THEN cfg.guild_units ELSE PyOr(cfg.user_units, "si")

\* lines 484-494
get_localized_units(cfg, guild, units_type) ==
  IF ~guild
    THEN DictGet(DictGet(UNITS, cfg.user_units, UNITS.si), units_type, "?")
    ELSE LET current_system == PyOr(cfg.user_units, cfg.guild_units)
         IN DictGet(DictGet(UNITS, current_system, EmptyDict), units_type, "?")

\* the settings and the last command with nothing asked yet
NoReply ==
  [cmd |-> "none", guild |-> FALSE, reply |-> "", requested |-> NoUnits,
   labels |-> EmptyDict]

\* lines 133-139: the guild default is registered, the user has no setting
WeatherInit ==
  /\ config = [user_units |-> NoUnits, guild_units |-> "si", last |-> NoReply]
  /\ users = [u \in UserIds |-> None]
  /\ st = [p \in Procs |-> Idle]
  /\ ver = [u \in UserIds |-> 0]
  /\ lastSet = [u \in UserIds |-> NoSet]
  /\ view = None

\* lines 156-192: show, reset or set the invoking user's units (guild only)
forecastunits(arg) ==
  /\ config # None
  /\ LET units == casefold(arg)
         said(reply) == [NoReply EXCEPT !.cmd = "forecastunits", !.guild = TRUE,
                                        !.reply = reply]
     IN IF arg = NoUnits
          THEN config' = [config EXCEPT !.last =
                 said(PyOr(config.user_units, config.guild_units))]
        ELSE IF units = "reset"
          THEN config' = [config EXCEPT !.user_units = NoUnits,
                                        !.last = said("tick")]
        ELSE IF units \notin DOMAIN UNITS
          THEN config' = [config EXCEPT !.last = said("not supported")]
        ELSE config' = [config EXCEPT !.user_units = units,
                                      !.last = said("tick")]
  /\ UNCHANGED <<users, st, ver, lastSet, view>>

\* lines 194-224: show or set the guild's units
set_guild_units(arg) ==
  /\ config # None
  /\ LET units == casefold(arg)
         said(reply) == [NoReply EXCEPT !.cmd = "set_guild_units",
                                        !.guild = TRUE, !.reply = reply]
     IN IF arg = NoUnits
          THEN config' = [config EXCEPT !.last = said(config.guild_units)]
        ELSE IF units \notin DOMAIN UNITS
          THEN config' = [config EXCEPT !.last = said("not supported")]
        ELSE config' = [config EXCEPT !.guild_units = units,
                                      !.last = said("tick")]
  /\ UNCHANGED <<users, st, ver, lastSet, view>>

\* the reply of a lookup: the place is not found, the API call fails, or the
\* values come back in the units asked for and are labelled
Lookup(cmd, guild, outcome, types) ==
  IF outcome = "no place"
    THEN [NoReply EXCEPT !.cmd = cmd, !.guild = guild, !.reply = "no place"]
  ELSE IF outcome = "http error"
    THEN [NoReply EXCEPT !.cmd = cmd, !.guild = guild, !.reply = "no api key",
                         !.requested = get_units(config, guild)]
  ELSE [cmd |-> cmd, guild |-> guild, reply |-> "embed",
        requested |-> get_units(config, guild),
        labels |-> [t \in types |-> get_localized_units(config, guild, t)]]

Outcomes == {"no place", "http error", "ok"}

\* lines 229-338: the weather command
weather(guild, outcome) ==
  /\ config # None
  /\ config' = [config EXCEPT !.last =
                  Lookup("weather", guild, outcome, WeatherTypes)]
  /\ UNCHANGED <<users, st, ver, lastSet, view>>

\* lines 342-477: the forecast command
forecast(guild, outcome) ==
  /\ config # None
  /\ config' = [config EXCEPT !.last =
                  Lookup("forecast", guild, outcome, ForecastTypes)]
  /\ UNCHANGED <<users, st, ver, lastSet, view>>

WeatherNext ==
  \/ \E arg \in UnitArgs : forecastunits(arg)
  \/ \E arg \in UnitArgs : set_guild_units(arg)
  \/ \E guild \in BOOLEAN, outcome \in Outcomes : weather(guild, outcome)
  \/ \E guild \in BOOLEAN, outcome \in Outcomes : forecast(guild, outcome)

WeatherSpec == WeatherInit /\ [][WeatherNext]_vars

(* ============================= properties ============================== *)
\* the write of invocation p is the last change of its user's document
Undisturbed(p) == ver[st[p].user] = st[p].verAt

\* sum of required_exp(i) for i in [0, n)
RECURSIVE SumRequired(_)
SumRequired(n) == IF n <= 0 THEN 0 ELSE SumRequired(n - 1) + _required_exp(n - 1)

\* the guild entry of a document, None when the document or the entry is absent
Entry(doc, g) == IF doc = None THEN None ELSE DictGet(doc.servers, Str(g), None)
\* the chat_block of a document, None when absent
Block(doc) == IF doc = None THEN None ELSE DictGet(doc, "chat_block", None)
\* the failure left the command: by an error message or by the exception
Surfaced(p) == st[p].reported \/ st[p].pc = "raised"

\* C1: after a setlevel on a non-bot member with target level N >= 0 has
\* written, the stored record has servers[guild].level = N and
\* servers[guild].current_exp = 0.
C1_LevelAndExpSet ==
  \A p \in Procs :
    (st[p].cmd = "setlevel" /\ st[p].applied /\ Undisturbed(p)) =>
      /\ ~IsBot(st[p].user)
      /\ st[p].level >= 0
      /\ users[st[p].user] # None
      /\ Entry(users[st[p].user], st[p].guild)
           = [level |-> st[p].level, current_exp |-> 0]

C1_Witness ==
  \E p \in Procs :
    /\ st[p].cmd = "setlevel" /\ st[p].pc = "done" /\ st[p].result = "ok"
    /\ Undisturbed(p)
    /\ st[p].level > 0
    /\ Entry(st[p].read, st[p].guild).current_exp > 0
    /\ Entry(st[p].read, st[p].guild).level # st[p].level

\* C2: the total_exp persisted by setlevel is the total_exp read, minus the
\* sum of required_exp(i) for i below the level read, minus the current_exp
\* read, plus level_exp(target level).
C2_TotalExpDelta ==
  \A p \in Procs :
    (st[p].cmd = "setlevel" /\ st[p].applied /\ Undisturbed(p)) =>
      LET old == Entry(st[p].read, st[p].guild)
      IN users[st[p].user].total_exp
           = st[p].read.total_exp - SumRequired(old.level) - old.current_exp
               + _level_exp(st[p].level)

C2_Witness ==
  \E p \in Procs :
    /\ st[p].cmd = "setlevel" /\ st[p].pc = "done" /\ st[p].result = "ok"
    /\ Undisturbed(p)
    /\ Entry(st[p].read, st[p].guild).level = 2
    /\ Entry(st[p].read, st[p].guild).current_exp = 30
    /\ st[p].level = 1
    /\ st[p].read.total_exp = 410
    /\ users[st[p].user].total_exp = 230

\* C3: a setlevel or resetranks write made as in a sequential run (nothing
\* changed the record between the command's read and its write) to a record
\* whose total_exp was the sum over its guilds of level_exp(level) +
\* current_exp leaves a record with that same equality.
C3_TotalIsSumOfGuilds ==
  \A p \in Procs :
    (/\ st[p].cmd \in {"setlevel", "resetranks"}
     /\ st[p].applied /\ st[p].fresh /\ Undisturbed(p)
     /\ Consistent(st[p].read)) => Consistent(users[st[p].user])

\* C4: a setlevel(user, N) that reads the record left by a setlevel(user, N)
\* on the same guild, with no change of the record in between, writes the
\* record it read: the store is unchanged by the second write.
C4_SetLevelIdempotent ==
  [][\A p \in Procs :
       (/\ st[p].pc = "sl_update" /\ st'[p].pc = "sl_send"
        /\ st[p].again
        /\ st[p].seenVer = ver[st[p].user]) => users' = users]_vars

C4_Witness ==
  \E p \in Procs :
    /\ st[p].cmd = "setlevel" /\ st[p].pc = "done" /\ st[p].result = "ok"
    /\ st[p].again
    /\ st[p].level = 2
    /\ st[p].verAt = st[p].seenVer
    /\ \E h \in Guilds \ {st[p].guild} : Entry(users[st[p].user], h) # None

\* C5: every step of a setlevel on user u in guild g leaves every other
\* user's record, every other guild entry of u and u's chat_block as they
\* were.
C5_SetLevelFrame ==
  [][\A p \in Procs :
       (st'[p] # st[p] /\ st'[p].cmd = "setlevel") =>
         /\ \A v \in UserIds \ {st'[p].user} : users'[v] = users[v]
         /\ \A h \in Guilds \ {st'[p].guild} :
              Entry(users'[st'[p].user], h) = Entry(users[st'[p].user], h)
         /\ Block(users'[st'[p].user]) = Block(users[st'[p].user])]_vars

C5_Witness ==
  \E p \in Procs :
    /\ st[p].cmd = "setlevel" /\ st[p].pc = "done" /\ st[p].result = "ok"
    /\ st[p].wrote
    /\ \E h \in Guilds \ {st[p].guild} :
         /\ Entry(users[st[p].user], h) # None
         /\ Entry(users[st[p].user], h).level > 0
    /\ \E v \in UserIds \ {st[p].user} : ~IsBot(v) /\ users[v] # None

\* C6: a setlevel rejected for a bot target or a negative level has changed
\* nothing in the store (no record created, no field written) and has not
\* invoked the level-up handler.
C6_RejectedNoMutation ==
  \A p \in Procs :
    (st[p].cmd = "setlevel" /\ st[p].result \in {"bot", "invalid_level"}) =>
      /\ ~st[p].created
      /\ ~st[p].wrote
      /\ st[p].levelups = 0

\* C7: setlevel issues at most one update_one, and the step that applies it
\* puts the guild's level, the guild's current_exp and total_exp into the
\* store together; no other step of the command after _create_user changes
\* the store.
C7_SingleAtomicWrite ==
  /\ [](\A p \in Procs : st[p].cmd = "setlevel" =>
           /\ st[p].writes <= 1
           /\ st[p].applied => st[p].writes = 1)
  /\ [][\A p \in Procs :
          (/\ st'[p] # st[p] /\ st'[p].cmd = "setlevel"
           /\ st[p].pc # "idle" /\ users' # users) =>
            /\ st[p].pc = "sl_update"
            /\ st[p].writes = 0
            /\ Entry(users'[st[p].user], st[p].guild)
                 = [level |-> st[p].level, current_exp |-> 0]
            /\ users'[st[p].user].total_exp = st[p].userinfo.total_exp]_vars

C7_Witness ==
  \E p \in Procs :
    /\ st[p].cmd = "setlevel" /\ st[p].pc = "sl_send"
    /\ Undisturbed(p)
    /\ st[p].writes = 1
    /\ Entry(st[p].read, st[p].guild).level # st[p].level
    /\ Entry(st[p].read, st[p].guild).current_exp # 0
    /\ st[p].read.total_exp # users[st[p].user].total_exp

\* C8: the level-up handler is invoked at most once per setlevel, only once
\* the write has been applied, never for a rejected command or a failed
\* write, and exactly once by the time a setlevel whose write was applied
\* has finished.
C8_LevelupAfterWrite ==
  \A p \in Procs :
    st[p].cmd = "setlevel" =>
      /\ st[p].levelups <= 1
      /\ st[p].levelups = 1 => (st[p].applied /\ st[p].pc = "done")
      /\ st[p].result \in {"bot", "invalid_level", "write_failed"}
           => st[p].levelups = 0
      /\ (st[p].pc = "done" /\ st[p].applied) => st[p].levelups = 1
      /\ (st[p].pc \in {"done", "raised"} /\ ~st[p].applied)
           => st[p].levelups = 0

C8_Witness ==
  \E p \in Procs :
    /\ st[p].cmd = "setlevel" /\ st[p].pc = "done"
    /\ st[p].applied /\ st[p].levelups = 1
    /\ st[p].handled = st[p].userinfo
    /\ Entry(st[p].handled, st[p].guild).level = st[p].level

\* C9 (as stated): after a failed write of setlevel or xpban there was one
\* write attempt, the failure was surfaced, no acknowledgement was sent and
\* the command has changed nothing in the store.
C9_FailedWriteLeavesStore ==
  \A p \in Procs :
    (st[p].cmd \in {"setlevel", "xpban"} /\ st[p].result = "write_failed") =>
      /\ st[p].writes = 1
      /\ Surfaced(p)
      /\ ~st[p].acked
      /\ ~st[p].created
      /\ ~st[p].wrote

\* C9 (amended): after a failed write of setlevel or xpban there was one
\* write attempt, the failure was surfaced, no acknowledgement was sent and
\* no update_one of the command has changed the store; the only change the
\* command can have made is the record or guild entry that setlevel's
\* _create_user added before the write.
C9_FailedWriteNoUpdate ==
  \A p \in Procs :
    (st[p].cmd \in {"setlevel", "xpban"} /\ st[p].result = "write_failed") =>
      /\ st[p].writes = 1
      /\ Surfaced(p)
      /\ ~st[p].acked
      /\ st[p].levelups = 0
      /\ ~st[p].wrote
      /\ ~st[p].applied
      /\ st[p].created => st[p].cmd = "setlevel"

C9_Witness ==
  /\ \E p \in Procs :
       /\ st[p].cmd = "setlevel" /\ st[p].pc = "raised"
       /\ st[p].result = "write_failed" /\ st[p].created
  /\ \E p \in Procs :
       /\ st[p].cmd = "xpban" /\ st[p].pc = "done" /\ st[p].reported
       /\ st[p].result = "write_failed" /\ users[st[p].user] # None

\* C10: the write resetranks issues for a member sets the guild's level and
\* current_exp to 0 and total_exp to the total_exp read minus
\* servers[guild].current_exp of the record read.
C10_ResetSubtractsCurrentExp ==
  \A p \in Procs :
    (st[p].cmd = "resetranks" /\ st[p].applied /\ Undisturbed(p)) =>
      /\ Entry(users[st[p].user], st[p].guild) = [level |-> 0, current_exp |-> 0]
      /\ users[st[p].user].total_exp
           = st[p].read.total_exp
               - DictGet(DictGet(st[p].read.servers, Str(st[p].guild), EmptyDict),
                         "current_exp", 0)

\* C11: no step of a resetranks creates a record or changes the record of a
\* bot member; the command reaches its update_one only for a member that is
\* not a bot and whose record was found, and only that member's record is
\* touched by the write.
C11_ResetSkipsBotsAndMissing ==
  [][\A p \in Procs :
       (st'[p] # st[p] /\ st'[p].cmd = "resetranks") =>
         /\ \A u \in DOMAIN users : users[u] = None => users'[u] = None
         /\ \A u \in DOMAIN users : IsBot(u) => users'[u] = users[u]
         /\ st'[p].pc = "rr_update" =>
              (~IsBot(st'[p].user) /\ users[st'[p].user] # None)
         /\ st'[p].writes > st[p].writes =>
              /\ ~IsBot(st[p].user) /\ st[p].read # None
              /\ \A u \in DOMAIN users \ {st[p].user} : users'[u] = users[u]]_vars

C11_Witness ==
  \E p \in Procs :
    /\ st[p].cmd = "resetranks" /\ st[p].pc = "done"
    /\ st[p].writes >= 1 /\ st[p].wrote
    /\ \E b \in DOMAIN users :
         /\ IsBot(b) /\ users[b] # None
         /\ Entry(users[b], st[p].guild) # None
         /\ Entry(users[b], st[p].guild).level > 0
    /\ \E u \in DOMAIN users : ~IsBot(u) /\ users[u] = None
    /\ Len(st[p].visited) = Len(Members(st[p].guild))

\* C12: the write resetranks issues for a member whose record, read with
\* level 0 and current_exp 0 for the guild and not changed since the read,
\* leaves the store as it was: total_exp and every other field are unchanged,
\* so a second run of resetranks changes nothing.
C12_ResetIdempotent ==
  [][\A p \in Procs :
       (/\ st[p].pc = "rr_update" /\ st'[p].pc = "rr_next"
        /\ Entry(st[p].read, st[p].guild) = [level |-> 0, current_exp |-> 0]
        /\ st[p].seenVer = ver[st[p].user]) => users' = users]_vars

C12_Witness ==
  \E p \in Procs :
    /\ st[p].cmd = "resetranks" /\ st[p].pc = "done"
    /\ st[p].applied /\ st[p].fresh /\ ~st[p].wrote
    /\ Entry(st[p].read, st[p].guild) = [level |-> 0, current_exp |-> 0]
    /\ st[p].read.total_exp > 0
    /\ users[st[p].user] = st[p].read
    /\ \E q \in Procs \ {p} : st[q].pc = "returned"

\* no other invocation is in flight or has run beside invocation p
Alone(p) == \A q \in Procs \ {p} : st[q].pc \in {"idle", "returned"}

\* C13: a resetranks always comes to its end, by finishing or, when the
\* store fails, by the exception; all along it has visited the members once
\* each in enumeration order, and when it has finished with no other writer
\* beside it every member that is not a bot and has a record is at level 0
\* and current_exp 0 for the guild.
C13_ResetTerminates ==
  /\ [](\A p \in Procs : st[p].cmd = "resetranks" =>
          /\ Len(st[p].visited) <= Len(Members(st[p].guild))
          /\ \A i \in 1..Len(st[p].visited) :
               st[p].visited[i] = Members(st[p].guild)[i]
          /\ st[p].pc = "done" =>
               /\ Len(st[p].visited) = Len(Members(st[p].guild))
               /\ Alone(p) =>
                    \A u \in DOMAIN users :
                      (~IsBot(u) /\ users[u] # None) =>
                        Entry(users[u], st[p].guild)
                          = [level |-> 0, current_exp |-> 0])
  /\ \A p \in Procs :
       (st[p].cmd = "resetranks") ~> (st[p].pc \in {"done", "raised"})

C13_Witness ==
  \E p \in Procs :
    /\ st[p].cmd = "resetranks" /\ st[p].pc = "done" /\ Alone(p)
    /\ st[p].visited = <<1, 2, 3>>
    /\ st[p].wrote
    /\ \E u \in DOMAIN users : ~IsBot(u) /\ users[u] = None
    /\ \E u \in DOMAIN users :
         /\ ~IsBot(u) /\ users[u] # None
         /\ Entry(users[u], st[p].guild) = [level |-> 0, current_exp |-> 0]
         /\ users[u].total_exp > 0

\* C14: the update of an xpban with duration D issued at clock time t, when
\* it succeeds on the target's record, leaves that record with chat_block =
\* t + D and every other field as it was, leaves every other user's record
\* as it was, and is acknowledged.
C14_ChatBlockSet ==
  [][\A p \in Procs :
       (/\ st[p].pc = "xb_update" /\ st'[p].pc = "done"
        /\ st'[p].result = "ok" /\ users[st[p].user] # None) =>
         /\ users' = [users EXCEPT ![st[p].user] =
                        DictPut(users[st[p].user], "chat_block",
                                st[p].now + st[p].bantime)]
         /\ st'[p].acked /\ ~st'[p].reported]_vars

C14_Witness ==
  \E p \in Procs :
    /\ st[p].cmd = "xpban" /\ st[p].pc = "done" /\ st[p].result = "ok"
    /\ st[p].wrote /\ st[p].acked
    /\ Block(users[st[p].user]) = 1060
    /\ st[p].now = 1000 /\ st[p].bantime = 60
    /\ users[st[p].user].total_exp > 0
    /\ \E v \in DOMAIN users \ {st[p].user} : users[v] # None

\* C15: an xpban that has ended while its target has no record (records are
\* never deleted, so the target had none all along) has reported the missing
\* record, has not acknowledged success and has changed nothing in the
\* store, whether the target was given as a raw id or as a user object.
C15_MissingRecordReported ==
  \A p \in Procs :
    (st[p].cmd = "xpban" /\ st[p].pc = "done" /\ users[st[p].user] = None) =>
      /\ st[p].reported
      /\ ~st[p].acked
      /\ ~st[p].wrote

\* the setlevel invocations p and q on one user overlap: each of them read
\* the record before the write of the other
Overlap(p, q) ==
  /\ p # q
  /\ st[p].cmd = "setlevel" /\ st[q].cmd = "setlevel"
  /\ st[p].user = st[q].user
  /\ st[p].applied /\ st[q].applied
  /\ st[p].seenVer < st[q].verAt
  /\ st[q].seenVer < st[p].verAt

\* C16: when two setlevel invocations on one user overlap, then once both
\* have written, total_exp and the level and current_exp of the guild of the
\* invocation whose write came last hold what that invocation computed from
\* the record it had read, stale as it was.
C16_LastWriteWins ==
  \A p, q \in Procs :
    (Overlap(p, q) /\ st[p].verAt >= st[q].verAt /\ Undisturbed(p)) =>
      LET old == Entry(st[p].read, st[p].guild)
          doc == users[st[p].user]
      IN /\ Entry(doc, st[p].guild) = [level |-> st[p].level, current_exp |-> 0]
         /\ doc.total_exp = st[p].userinfo.total_exp
         /\ doc.total_exp
              = st[p].read.total_exp - SumRequired(old.level) - old.current_exp
                  + _level_exp(st[p].level)

C16_Witness ==
  \E p, q \in Procs :
    /\ Overlap(p, q) /\ st[p].verAt > st[q].verAt /\ Undisturbed(p)
    /\ st[p].pc = "done" /\ st[q].pc = "done"
    /\ st[p].guild = st[q].guild
    /\ st[p].level # st[q].level
    /\ st[p].read = st[q].read
    /\ st[p].userinfo.total_exp # st[q].userinfo.total_exp
    /\ users[st[p].user].total_exp = st[p].userinfo.total_exp
    /\ Entry(users[st[p].user], st[p].guild).level = st[p].level

\* C17: in every state of a run of setlevel and resetranks invocations on
\* one user, interleaved at their reads and writes, that started from a
\* consistent record, total_exp and every guild's level and current_exp are
\* at least 0.
C17_NeverNegative ==
  \A u \in DOMAIN users :
    users[u] # None =>
      /\ users[u].total_exp >= 0
      /\ \A k \in DOMAIN users[u].servers :
           /\ users[u].servers[k].level >= 0
           /\ users[u].servers[k].current_exp >= 0

\* C18: all along a resetranks the counter is the number of members updated,
\* there is one progress notice for every full ProgressEvery of them, and
\* the i-th notice shows the number of members updated when it was sent,
\* i * ProgressEvery.
C18_ProgressShowsCount ==
  \A p \in Procs :
    st[p].cmd = "resetranks" =>
      /\ st[p].pc # "raised" => st[p].current = st[p].writes
      /\ Len(st[p].notices) = st[p].current \div ProgressEvery
      /\ \A i \in 1..Len(st[p].notices) : st[p].notices[i] = i * ProgressEvery

\* C19: the current page of a view over max_pages >= 1 pages, started on a
\* page of the source, is always one of the pages 0 .. max_pages - 1 and is
\* the page on display; an accepted Forward goes to the next page and from
\* the last page to page 0, Back to the previous page and from page 0 to the
\* last, First to page 0 and Last to the last page.
C19_PageStaysInRange ==
  /\ [](view # None =>
          /\ view.max_pages >= 1
          /\ view.current_page \in 0..(view.max_pages - 1)
          /\ view.shown = view.current_page)
  /\ [][(view # None /\ view' # view /\ ~view'.refused) =>
          LET cur == view.current_page
              last == view.max_pages - 1
          IN /\ view'.pressed = "forward" =>
                  view'.current_page = IF cur = last THEN 0 ELSE cur + 1
             /\ view'.pressed = "back" =>
                  view'.current_page = IF cur = 0 THEN last ELSE cur - 1
             /\ view'.pressed = "first" => view'.current_page = 0
             /\ view'.pressed = "last" => view'.current_page = last]_vars

C19_Witness ==
  /\ view # None
  /\ view.pressed = "forward" /\ ~view.refused
  /\ view.max_pages = MaxPages
  /\ view.current_page = 0

\* C20: once a page change has been accepted on a source with more than
\* SelectLimit options, the select menu holds SelectLimit consecutive
\* options, the ones _get_select_menu gives for the page now on display, and
\* the option of that page is among them.
C20_SelectMenuAroundPage ==
  (/\ view # None /\ view.pressed # "none" /\ ~view.refused
   /\ view.max_pages > SelectLimit) =>
    /\ Len(view.select_menu) = SelectLimit
    /\ \A i \in 1..(Len(view.select_menu) - 1) :
         view.select_menu[i + 1] = view.select_menu[i] + 1
    /\ \E i \in 1..Len(view.select_menu) :
         view.select_menu[i] = view.current_page
    /\ view.select_menu = _get_select_menu(view.current_page, view.max_pages)

\* C21: an interaction of a user who is neither a bot owner nor the author
\* of the command is refused and leaves the current page, the page on
\* display, the select menu and the buttons as they were; an interaction of
\* an owner or of the author is never refused.
C21_OnlyOwnerOrAuthor ==
  [][(view # None /\ view' # view) =>
       /\ view'.by = "other" =>
            /\ view'.refused
            /\ view'.current_page = view.current_page
            /\ view'.shown = view.shown
            /\ view'.select_menu = view.select_menu
            /\ view'.disabled = view.disabled
       /\ view'.by \in {"author", "owner"} => ~view'.refused]_vars

C21_Witness ==
  /\ view # None
  /\ view.by = "other" /\ view.refused /\ view.pressed = "last"
  /\ view.max_pages = MaxPages
  /\ view.current_page = 0 /\ view.shown = 0

\* C22: whenever the weather or the forecast command has answered with
\* values, in a guild or in a direct message, every label attached to them
\* is the label of the unit system that was requested from the forecast API.
C22_LabelsMatchRequest ==
  (/\ config # None
   /\ config.last.cmd \in {"weather", "forecast"}
   /\ config.last.reply = "embed") =>
    \A t \in DOMAIN config.last.labels :
      config.last.labels[t] = UNITS[config.last.requested][t]

====
